---- MODULE Spec2Model ----
(***************************************************************************)
(* Keyboard camera controller of graphics/graphics_canvas.py.              *)
(*                                                                         *)
(* The program computes with vpython vectors of floats.  The model uses    *)
(* fixed-point vectors: a length l is the integer l * Scale, a vector is a *)
(* triple of such integers, and every product, quotient and square root is *)
(* rounded to the nearest (or next lower) multiple of 1/Scale.  Directions *)
(* (a vector about to be normalised or set to a magnitude) are taken at a  *)
(* finer resolution, so that a short vector has the direction the floats   *)
(* give it.  The model covers the poses whose coordinates, and the         *)
(* coordinates of up x axis, stay under 2^31 / Scale.  Equalities the      *)
(* program reaches only up to floating-point rounding are stated up to     *)
(* Tol units of 1/Scale.                                                   *)
(***************************************************************************)
EXTENDS Integers, Sequences, FiniteSets

\* ------------------------------------------------------------------------
\* Fixed-point arithmetic (TLC integers are 32 bits wide; every operator
\* below keeps its intermediate values under 2^31 for operands under 2^27).

\* units per unit length: resolution 0.0001
Scale == 10 ^ 4

\* denominator of the trigonometric constants
TrigScale == 10 ^ 8

\* base of a two-limb number <<hi, lo>> = hi * Limb + lo
Limb == 2 ^ 30

\* the largest coordinate of a vector whose length is taken to stretch it
MagCap == 2 ^ 25

Abs(a) == IF a < 0 THEN -a ELSE a

Sgn(a) == IF a < 0 THEN -1 ELSE IF a > 0 THEN 1 ELSE 0

\* <<q, r>> with a * b = q * c + r and 0 <= r < c, for a, b >= 0 and
\* 0 < c < 2^27, along the octal digits of b.
RECURSIVE PDM(_, _, _)
PDM(a, b, c) ==
    IF b = 0 THEN <<0, 0>>
    ELSE LET h == PDM(a, b \div 8, c)
             t == 8 * h[2] + (a % c) * (b % 8)
         IN  <<8 * h[1] + (a \div c) * (b % 8) + (t \div c), t % c>>

\* the quotient p[1] of a division by c, rounded to nearest by its remainder
Rounded(p, c) == p[1] + (IF 2 * p[2] >= c THEN 1 ELSE 0)

\* a * b / c rounded to nearest, c > 0 (0 for the other c)
MulDiv(a, b, c) ==
    IF c <= 0 THEN 0 ELSE Sgn(a) * Sgn(b) * Rounded(PDM(Abs(a), Abs(b), c), c)

\* product of two fixed-point numbers: a * b / Scale rounded to nearest
MulS(a, b) ==
    LET a1 == a \div Scale
        a0 == a % Scale
        b1 == b \div Scale
        b0 == b % Scale
    IN  a1 * b1 * Scale + a1 * b0 + a0 * b1 + ((a0 * b0 + (Scale \div 2)) \div Scale)

\* exact square of an integer |x| < 2^30 as a two-limb number
WSq(x) ==
    LET a  == Abs(x)
        x1 == a \div (2 ^ 15)
        x0 == a % (2 ^ 15)
        c  == x1 * x0
        lo == (c % (2 ^ 14)) * (2 ^ 16) + x0 * x0
    IN  <<x1 * x1 + (c \div (2 ^ 14)) + (lo \div Limb), lo % Limb>>

WAdd(p, q) == <<p[1] + q[1] + ((p[2] + q[2]) \div Limb), (p[2] + q[2]) % Limb>>

\* p - q for p >= q
WSub(p, q) ==
    IF p[2] >= q[2] THEN <<p[1] - q[1], p[2] - q[2]>>
    ELSE <<p[1] - q[1] - 1, p[2] + Limb - q[2]>>

WLeq(p, q) == p[1] < q[1] \/ (p[1] = q[1] /\ p[2] <= q[2])

\* p * n / d rounded down (to within 2), for 0 <= n <= d < 2^27
WMulFrac(p, n, d) ==
    LET h == PDM(p[1], n, d)
        m == PDM(h[2], Limb, d)
        l == PDM(p[2], n, d)
    IN  WAdd(<<h[1], 0>>, WAdd(<<0, m[1]>>, <<0, l[1]>>))

\* largest m in lo..hi with m * m <= n (n two-limb, lo * lo <= n), by
\* eight-way section
RECURSIVE WSqrtIn(_, _, _)
WSqrtIn(n, lo, hi) ==
    IF lo >= hi THEN lo
    ELSE LET step == ((hi - lo) \div 8) + 1
             ok   == {i \in 0..7 : lo + i * step <= hi /\ WLeq(WSq(lo + i * step), n)}
             k    == CHOOSE i \in ok : \A j \in ok : j <= i
             top  == lo + (k + 1) * step - 1
         IN  WSqrtIn(n, lo + k * step, IF top < hi THEN top ELSE hi)

\* m or m + 1, whichever is nearer the square root of n, m its floor
Nearer(n, m) == IF WLeq(WAdd(WSq(m), <<0, m + 1>>), n) THEN m + 1 ELSE m

\* square root of a two-limb number n <= hi * hi, rounded to nearest
WSqrt(n, hi) == Nearer(n, WSqrtIn(n, 0, hi))

\* ------------------------------------------------------------------------
\* vpython vectors

vector(x, y, z) == <<x * Scale, y * Scale, z * Scale>>

x_axis_vector == vector(1, 0, 0)

y_axis_vector == vector(0, 1, 0)

z_axis_vector == vector(0, 0, 1)

VAdd(a, b) == <<a[1] + b[1], a[2] + b[2], a[3] + b[3]>>

VSub(a, b) == <<a[1] - b[1], a[2] - b[2], a[3] - b[3]>>

VNeg(a) == <<-a[1], -a[2], -a[3]>>

\* vector * scalar, the scalar a fixed-point number
VTimes(a, k) == <<MulS(a[1], k), MulS(a[2], k), MulS(a[3], k)>>

\* a.cross(b)
Cross(a, b) ==
    << MulS(a[2], b[3]) - MulS(a[3], b[2]),
       MulS(a[3], b[1]) - MulS(a[1], b[3]),
       MulS(a[1], b[2]) - MulS(a[2], b[1]) >>

\* a.mag
Mag(a) == WSqrt(WAdd(WSq(a[1]), WAdd(WSq(a[2]), WSq(a[3]))), Abs(a[1]) + Abs(a[2]) + Abs(a[3]))

\* the largest of the absolute values of a's coordinates
MaxAbs(a) ==
    IF Abs(a[1]) >= Abs(a[2]) /\ Abs(a[1]) >= Abs(a[3]) THEN Abs(a[1])
    ELSE IF Abs(a[2]) >= Abs(a[3]) THEN Abs(a[2]) ELSE Abs(a[3])

\* x / d rounded to nearest, d > 0
DivRound(x, d) == Sgn(x) * ((Abs(x) + (d \div 2)) \div d)

\* a, whose largest coordinate is mx, as a vector of the same direction
\* whose largest coordinate is near cap: a whole multiple of a (exact) when
\* a is shorter, a fraction of a (rounded) when a is longer
Fitted(a, cap, mx) ==
    IF mx = 0 THEN a
    ELSE IF mx <= cap
         THEN <<a[1] * (cap \div mx), a[2] * (cap \div mx), a[3] * (cap \div mx)>>
         ELSE <<DivRound(a[1], (mx \div cap) + 1), DivRound(a[2], (mx \div cap) + 1),
                DivRound(a[3], (mx \div cap) + 1)>>

Fit(a, cap) == Fitted(a, cap, MaxAbs(a))

\* a of length l, stretched to length m: the zero vector left as it is
Stretched(a, m, l) ==
    IF l = 0 THEN <<0, 0, 0>>
    ELSE <<MulDiv(a[1], m, l), MulDiv(a[2], m, l), MulDiv(a[3], m, l)>>

\* Stretched for a vector whose length is a good many units, so that the
\* rounding of the length to a whole unit does not show in the result
StretchedFit(a, m) == Stretched(a, m, Mag(a))

\* a.mag = m: a is a.hat * m, the direction taken from a at full resolution
SetMag(a, m) == StretchedFit(Fit(a, MagCap), m)

\* norm(a): the unit vector of a, the zero vector for the zero vector
norm(a) == SetMag(a, Scale)

\* norm(a) in units of 1 / TrigScale
Unit(a) == SetMag(a, TrigScale)

\* a.cross(b) for a of Unit
UCross(a, b) ==
    << MulDiv(a[2], b[3], TrigScale) - MulDiv(a[3], b[2], TrigScale),
       MulDiv(a[3], b[1], TrigScale) - MulDiv(a[1], b[3], TrigScale),
       MulDiv(a[1], b[2], TrigScale) - MulDiv(a[2], b[1], TrigScale) >>

\* a.dot(b) for a of Unit
UDot(a, b) ==
    MulDiv(a[1], b[1], TrigScale) + MulDiv(a[2], b[2], TrigScale)
        + MulDiv(a[3], b[3], TrigScale)

\* the exact product of two integers under 2^30 in absolute value, as a
\* two-limb number
WMulAbs(a, b) ==
    LET a1 == a \div (2 ^ 15)
        a0 == a % (2 ^ 15)
        b1 == b \div (2 ^ 15)
        b0 == b % (2 ^ 15)
        mid == a1 * b0 + a0 * b1
        lo == (mid % (2 ^ 15)) * (2 ^ 15) + a0 * b0
    IN  <<a1 * b1 + (mid \div (2 ^ 15)) + (lo \div Limb), lo % Limb>>

\* the negative of a two-limb number, its high limb carrying the sign
WNeg(p) == IF p[2] = 0 THEN <<-p[1], 0>> ELSE <<-p[1] - 1, Limb - p[2]>>

WMul(a, b) ==
    IF Sgn(a) * Sgn(b) < 0 THEN WNeg(WMulAbs(Abs(a), Abs(b))) ELSE WMulAbs(Abs(a), Abs(b))

\* a.cross(b) in two-limb coordinates, exact
WCross(a, b) ==
    << WSub(WMul(a[2], b[3]), WMul(a[3], b[2])),
       WSub(WMul(a[3], b[1]), WMul(a[1], b[3])),
       WSub(WMul(a[1], b[2]), WMul(a[2], b[1])) >>

\* the high limb of the absolute value of a two-limb number
WTop(p) == IF p[1] >= 0 THEN p[1] ELSE WNeg(p)[1]

\* p / 2^(30 - s) rounded down, for p under 2^(59 - s) in absolute value
WShift(p, s) == p[1] * (2 ^ s) + (p[2] \div (2 ^ (30 - s)))

\* the two-limb vector w, its largest high limb top, in single coordinates:
\* w itself when it fits, else w over the least power of two that makes it fit
Narrowed(w, top) ==
    IF top = 0 /\ w[1][1] \in {-1, 0} /\ w[2][1] \in {-1, 0} /\ w[3][1] \in {-1, 0}
    THEN <<WShift(w[1], 30), WShift(w[2], 30), WShift(w[3], 30)>>
    ELSE LET s == CHOOSE i \in 0..28 : (top + 1) * (2 ^ i) <= 2 ^ 28 /\ (top + 1) * (2 ^ i) > 2 ^ 27
         IN  <<WShift(w[1], s), WShift(w[2], s), WShift(w[3], s)>>

Narrow(w) == Narrowed(w, MaxAbs(<<WTop(w[1]), WTop(w[2]), WTop(w[3])>>))

\* a.cross(b) up to a positive factor: the direction of the cross product
\* at full resolution, whatever the lengths of a and b
CrossDir(a, b) == Narrow(WCross(a, b))

\* ------------------------------------------------------------------------
\* Constants of handle_keyboard_inputs

\* pan_amount = 0.02 = pan_amount_num / pan_amount_den
pan_amount_num == 2

pan_amount_den == 100

\* rot_amount = 1.0 degree: cos(radians(rot_amount)) * TrigScale
cos_rot_amount == 99984770

\* (1 - cos(radians(rot_amount))) * TrigScale * VersinFine, the factor of
\* d ** 2 + d ** 2 in move_dist, kept to three more digits than the cosine
versin_rot_amount == 15230484

VersinFine == 1000

\* sin(radians(rot_amount)) * TrigScale
sin_rot_amount == 1745241

\* vector * pan_amount
TimesPanAmount(a) ==
    << MulDiv(a[1], pan_amount_num, pan_amount_den),
       MulDiv(a[2], pan_amount_num, pan_amount_den),
       MulDiv(a[3], pan_amount_num, pan_amount_den) >>

\* one coordinate of the rotated vector, ui in units of 1 / TrigScale
RotateTerm(vi, uvi, ui, ud, dir) ==
    MulDiv(vi, cos_rot_amount, TrigScale)
        + dir * MulDiv(uvi, sin_rot_amount, TrigScale)
        + MulDiv(MulDiv(ui, ud, TrigScale), TrigScale - cos_rot_amount, TrigScale)

\* the rotation of v about the unit vector u, uv = u x v and ud = u . v
Rodrigues(v, dir, u, uv, ud) ==
    << RotateTerm(v[1], uv[1], u[1], ud, dir),
       RotateTerm(v[2], uv[2], u[2], ud, dir),
       RotateTerm(v[3], uv[3], u[3], ud, dir) >>

RotateAbout(v, dir, u) == Rodrigues(v, dir, u, UCross(u, v), UDot(u, v))

\* v.rotate(angle = dir * radians(rot_amount), axis = ax), dir = 1 or -1:
\* v cos + (u x v) sin + u (u . v) (1 - cos) with u the unit vector of ax
rotate(v, dir, ax) == RotateAbout(v, dir, Unit(ax))

\* s2 - s2 * cos(radians(rot_amount)) for the two-limb s2, and its root
Cosine(s2, hi) ==
    WSqrt(WMulFrac(WMulFrac(s2, versin_rot_amount, TrigScale), 1, VersinFine), hi)

\* MoveDist with d ** 2 once, not twice, under the cosine
MoveDist_NoFactor(d) == Cosine(WSq(d), 2 * d)

\* sqrt(d ** 2 + d ** 2 - 2 * d * d * cos(radians(rot_amount)))  # SAS Cosine
MoveDist(d) == Cosine(WAdd(WSq(d), WSq(d)), 2 * d)

\* ------------------------------------------------------------------------
\* The vpython scene.  camera.pos and camera.axis are views of the canvas:
\* camera.pos is center - camera.axis, so writing camera.pos moves center
\* along ("Changing camera position updates the scene center to follow same
\* changes") and writing camera.axis moves center to pos + axis.

\* scene.camera.pos = v
SetCameraPos(sc, v) == [sc EXCEPT !.pos = v, !.center = VAdd(v, sc.axis)]

\* scene.camera.axis = v
SetCameraAxis(sc, v) == [sc EXCEPT !.axis = v, !.center = VAdd(sc.pos, v)]

\* scene.up = v
SetUp(sc, v) == [sc EXCEPT !.up = v]

\* scene.forward = v: the center and the camera's distance from it stay
SetForward(sc, v) ==
    [sc EXCEPT !.axis = SetMag(v, Mag(sc.axis)),
               !.pos = VSub(sc.center, SetMag(v, Mag(sc.axis)))]

\* the distance of the camera of a new canvas from its center:
\* range / tan(fov / 2) = 1 / tan(pi / 6), in units of 1 / Scale
DefaultDistance == 17321

\* the canvas as vpython creates it: +y up, looking along -z at the origin
DefaultScene ==
    [pos |-> <<0, 0, DefaultDistance>>, axis |-> <<0, 0, -DefaultDistance>>,
     center |-> vector(0, 0, 0), up |-> y_axis_vector]

\* scene.camera.pos = vector(10, 10, 10); scene.camera.axis = -scene.camera.pos
LookFromCorner(sc) == SetCameraAxis(SetCameraPos(sc, vector(10, 10, 10)), VNeg(vector(10, 10, 10)))

convert_grid_to_z_up(sc) ==
    LookFromCorner(SetUp(SetForward(sc, x_axis_vector), z_axis_vector))

\* reset_camera without its scene.up = z_axis_vector
reset_camera_KeepsUp(sc) == LookFromCorner(sc)

reset_camera(sc) == LookFromCorner(SetUp(sc, z_axis_vector))

\* ------------------------------------------------------------------------
\* handle_keyboard_inputs

AllKeys ==
    {"ctrl", "w", "s", "a", "d", " ", "shift", "q", "e",
     "left", "right", "up", "down"}

PanKeys == {"w", "s", "a", "d", " ", "shift"}

RollKeys == {"q", "e"}

OrbitKeys == {"left", "right", "up", "down"}

\* FreeSpin returning only when ctrl is the one key held
FreeSpin_OnlyCtrl(keys) == keys = {"ctrl"}

\* if 'ctrl' in keys: return
FreeSpin(keys) == "ctrl" \in keys

\* RollLeft without its 'e' not in keys
RollLeft_NoCheck(keys) == "q" \in keys

\* if 'q' in keys and 'e' not in keys
RollLeft(keys) == "q" \in keys /\ "e" \notin keys

\* if 'e' in keys and 'q' not in keys
RollRight(keys) == "e" \in keys /\ "q" \notin keys

OrbitLeft(keys) == "left" \in keys /\ "right" \notin keys

OrbitRight(keys) == "right" \in keys /\ "left" \notin keys

OrbitUp(keys) == "up" \in keys /\ "down" \notin keys

OrbitDown(keys) == "down" \in keys /\ "up" \notin keys

\* cam_side_axis = scene.camera.up.cross(cam_axis)  # Y
CamSideAxis(sc) == Cross(sc.up, sc.axis)

\* the direction of cam_side_axis
CamSideDir(sc) == CrossDir(sc.up, sc.axis)

\* cam_up = cam_axis.cross(cam_side_axis)  # Z;  cam_up.mag = cam_axis.mag
CamUp(sc) == SetMag(CrossDir(sc.axis, CamSideDir(sc)), Mag(sc.axis))

\* if held: cam_pos = cam_pos + v * pan_amount
Raised(held, cam_pos, v) == IF held THEN VAdd(cam_pos, TimesPanAmount(v)) ELSE cam_pos

\* if held: cam_pos = cam_pos - v * pan_amount
Lowered(held, cam_pos, v) == IF held THEN VSub(cam_pos, TimesPanAmount(v)) ELSE cam_pos

\* Panning with 'd' adding the side offset as 'a' does
Panning_DAdds(keys, cam_pos, cam_axis, cam_side_axis, cam_up) ==
    Lowered("shift" \in keys,
        Raised(" " \in keys,
            Raised("d" \in keys,
                Raised("a" \in keys,
                    Lowered("s" \in keys,
                        Raised("w" \in keys, cam_pos, cam_axis),
                        cam_axis),
                    cam_side_axis),
                cam_side_axis),
            cam_up),
        cam_up)

\* Panning with the forward check on 'q', the key next to 'w'
Panning_QForW(keys, cam_pos, cam_axis, cam_side_axis, cam_up) ==
    Lowered("shift" \in keys,
        Raised(" " \in keys,
            Lowered("d" \in keys,
                Raised("a" \in keys,
                    Lowered("s" \in keys,
                        Raised("q" \in keys, cam_pos, cam_axis),
                        cam_axis),
                    cam_side_axis),
                cam_side_axis),
            cam_up),
        cam_up)

\* PANNING: cam_pos after the six checks, in the order of the code
Panning(keys, cam_pos, cam_axis, cam_side_axis, cam_up) ==
    Lowered("shift" \in keys,
        Raised(" " \in keys,
            Lowered("d" \in keys,
                Raised("a" \in keys,
                    Lowered("s" \in keys,
                        Raised("w" \in keys, cam_pos, cam_axis),
                        cam_axis),
                    cam_side_axis),
                cam_side_axis),
            cam_up),
        cam_up)

\* cam_up = cam_up.rotate(...); cam_up.mag = cam_axis.mag
RollUp(cam_up, dir, cam_axis) == SetMag(rotate(cam_up, dir, cam_axis), Mag(cam_axis))

\* if held: cam_up = cam_up.rotate(...); cam_up.mag = cam_axis.mag
Rolled(held, cam_up, dir, cam_axis) == IF held THEN RollUp(cam_up, dir, cam_axis) ELSE cam_up

\* Roll with the signs of the two angles exchanged
Roll_SwappedSign(keys, cam_up, cam_axis) ==
    Rolled(RollRight(keys), Rolled(RollLeft(keys), cam_up, 1, cam_axis), -1, cam_axis)

\* Camera Roll: cam_up after the two checks
Roll(keys, cam_up, cam_axis) ==
    Rolled(RollRight(keys), Rolled(RollLeft(keys), cam_up, -1, cam_axis), 1, cam_axis)

\* NewAxis without the negation
NewAxis_Unnegated(cam_pos, cam_focus) == VSub(cam_pos, cam_focus)

\* cam_axis = -(cam_pos - cam_focus)
NewAxis(cam_pos, cam_focus) == VNeg(VSub(cam_pos, cam_focus))

\* if held: cam_pos = cam_pos + norm(v) * move_dist
SwungOut(held, cam_pos, v, move_dist) ==
    IF held THEN VAdd(cam_pos, SetMag(v, move_dist)) ELSE cam_pos

\* if held: cam_pos = cam_pos - norm(v) * move_dist
SwungBack(held, cam_pos, v, move_dist) ==
    IF held THEN VSub(cam_pos, SetMag(v, move_dist)) ELSE cam_pos

\* CAMERA ROTATION: cam_pos after the four checks, cam_side_dir the
\* direction of cam_side_axis
Orbit(keys, cam_pos, cam_side_dir, cam_up, move_dist) ==
    SwungBack(OrbitDown(keys),
        SwungOut(OrbitUp(keys),
            SwungBack(OrbitRight(keys),
                SwungOut(OrbitLeft(keys), cam_pos, cam_side_dir, move_dist),
                cam_side_dir, move_dist),
            cam_up, move_dist),
        cam_up, move_dist)

\* an orbit check that rewrites cam_axis is taken
Orbits(keys) == OrbitLeft(keys) \/ OrbitRight(keys) \/ OrbitUp(keys) \/ OrbitDown(keys)

\* Turned with cam_axis recomputed whether or not an orbit check is taken
Turned_Always(keys, cam_pos, cam_focus, cam_axis) == VNeg(VSub(cam_pos, cam_focus))

\* cam_axis at the end: rewritten by the orbit checks taken, else as read
Turned(keys, cam_pos, cam_focus, cam_axis) ==
    IF Orbits(keys) THEN NewAxis(cam_pos, cam_focus) ELSE cam_axis

\* scene.up = cam_up, inside the two roll checks
WriteUp(sc, keys, cam_up) ==
    IF RollLeft(keys) \/ RollRight(keys) THEN SetUp(sc, cam_up) ELSE sc

\* lines 207-224: the orbit checks, then scene.camera.pos and
\* scene.camera.axis written
Commit(sc, keys, cam_pos, cam_focus, cam_axis) ==
    SetCameraAxis(SetCameraPos(sc, cam_pos), Turned(keys, cam_pos, cam_focus, cam_axis))

\* lines 179-224, panned the cam_pos after PANNING and rolled the cam_up
\* after Camera Roll
Written(sc, keys, panned, rolled, cam_side_dir, move_dist) ==
    Commit(WriteUp(SetCameraPos(sc, panned), keys, rolled), keys,
           Orbit(keys, panned, cam_side_dir, rolled, move_dist), sc.center, sc.axis)

\* lines 165-224, the camera's basis read
Moved(sc, keys, cam_distance, cam_side_axis, cam_side_dir, cam_up) ==
    Written(sc, keys,
            Panning(keys, sc.pos, sc.axis, cam_side_axis, cam_up),
            Roll(keys, cam_up, sc.axis),
            cam_side_dir, MoveDist(cam_distance))

handle_keyboard_inputs(sc, keys) ==
    IF FreeSpin(keys) THEN sc
    ELSE Moved(sc, keys, Mag(sc.axis), CamSideAxis(sc), CamSideDir(sc), CamUp(sc))

\* ------------------------------------------------------------------------
\* The state machine: the toolkit's event loop calls the key handler with
\* the keys held at that moment, or the reset button's callback.

\* total number of presses (held keys, the reset button) over a run
MaxPresses == 3

\* the key sets keysdown() may return within that budget
HeldSets == {ks \in SUBSET AllKeys : Cardinality(ks) <= MaxPresses}

VARIABLES
    scene,    \* the canvas: camera pos, camera axis, center, up
    before,   \* the canvas when the last callback started
    keys,     \* keysdown() of the last handle_keyboard_inputs call
    last,     \* the last callback: "init", "keys" or "reset"
    presses   \* presses so far

vars == <<scene, before, keys, last, presses>>

\* init_canvas: convert_grid_to_z_up() on the new canvas
Init ==
    /\ scene = convert_grid_to_z_up(DefaultScene)
    /\ before = DefaultScene
    /\ keys = {}
    /\ last = "init"
    /\ presses = 0

\* scene.bind('keydown', handle_keyboard_inputs)
KeyDown ==
    \E ks \in HeldSets :
        /\ presses + Cardinality(ks) <= MaxPresses
        /\ scene' = handle_keyboard_inputs(scene, ks)
        /\ before' = scene
        /\ keys' = ks
        /\ last' = "keys"
        /\ presses' = presses + Cardinality(ks)

\* button(bind=reset_camera, text="Reset Camera")
ResetCamera ==
    /\ presses + 1 <= MaxPresses
    /\ scene' = reset_camera(scene)
    /\ before' = scene
    /\ keys' = {}
    /\ last' = "reset"
    /\ presses' = presses + 1

Next == KeyDown \/ ResetCamera

Spec == Init /\ [][Next]_vars

\* ------------------------------------------------------------------------
\* Properties

\* rounding allowance, in units of 1 / Scale, where the program's floats
\* agree only up to rounding
Tol == 2

Near(a, b) == Abs(a - b) <= Tol

VNear(a, b) == Near(a[1], b[1]) /\ Near(a[2], b[2]) /\ Near(a[3], b[3])

\* the initial pose
InitialScene == convert_grid_to_z_up(DefaultScene)

\* the last callback was handle_keyboard_inputs and went past the ctrl check
Ticked == last = "keys" /\ "ctrl" \notin keys

\* distance from the camera position to the focus point
FocusDistance(sc) == Mag(VSub(sc.center, sc.pos))

\* some orbit key takes effect: it is held and its opposite is not
OrbitTakesEffect(ks) ==
    \/ ("left" \in ks /\ "right" \notin ks)
    \/ ("right" \in ks /\ "left" \notin ks)
    \/ ("up" \in ks /\ "down" \notin ks)
    \/ ("down" \in ks /\ "up" \notin ks)

\* C1: with 'ctrl' among the held keys, handle_keyboard_inputs leaves the
\* camera position, the camera axis and the scene up vector as they were,
\* whatever else is held.
C1_CtrlLeavesPose ==
    (last = "keys" /\ "ctrl" \in keys) =>
        /\ scene.pos = before.pos
        /\ scene.axis = before.axis
        /\ scene.up = before.up

\* a tick with ctrl and a pan, roll or orbit key, from a pose other than
\* the initial one
C1_Witness ==
    /\ last = "keys"
    /\ "ctrl" \in keys
    /\ keys \cap (PanKeys \cup RollKeys \cup OrbitKeys) # {}
    /\ before.pos # InitialScene.pos

\* C2: after reset_camera the camera position is (10,10,10), the camera
\* axis (-10,-10,-10) and the scene up the z axis, the pose
\* convert_grid_to_z_up sets at initialization, whatever the pose before.
C2_ResetRestoresDefaults ==
    last = "reset" =>
        /\ scene.pos = vector(10, 10, 10)
        /\ scene.axis = vector(-10, -10, -10)
        /\ scene.up = z_axis_vector
        /\ scene = InitialScene

\* a reset from a pose whose position, axis and up all differ from the
\* defaults
C2_Witness ==
    /\ last = "reset"
    /\ before.pos # vector(10, 10, 10)
    /\ before.axis # vector(-10, -10, -10)
    /\ before.up # z_axis_vector

\* the orders in which the keys of ks can be taken
Orders(ks) ==
    {o \in [1..Cardinality(ks) -> ks] : \A i, j \in 1..Cardinality(ks) : o[i] = o[j] => i = j}

\* the offset of one pan key in the basis cam_axis, cam_side_axis, cam_up
PanOffset(k, cam_axis, cam_side_axis, cam_up) ==
    CASE k = "w"     -> TimesPanAmount(cam_axis)
      [] k = "s"     -> VNeg(TimesPanAmount(cam_axis))
      [] k = "a"     -> TimesPanAmount(cam_side_axis)
      [] k = "d"     -> VNeg(TimesPanAmount(cam_side_axis))
      [] k = " "     -> TimesPanAmount(cam_up)
      [] k = "shift" -> VNeg(TimesPanAmount(cam_up))

\* p plus the offsets of the keys of the sequence, in its order
RECURSIVE PanSumIn(_, _, _, _, _)
PanSumIn(order, p, cam_axis, cam_side_axis, cam_up) ==
    IF order = <<>> THEN p
    ELSE PanSumIn(Tail(order),
                  VAdd(p, PanOffset(Head(order), cam_axis, cam_side_axis, cam_up)),
                  cam_axis, cam_side_axis, cam_up)

\* every order of the pan keys of ks gives the position q from p, the
\* basis as above and shift the displacement added at the end
AllOrdersGive(ks, p, cam_axis, cam_side_axis, cam_up, shift, q) ==
    \A o \in Orders(ks) : q = VAdd(PanSumIn(o, p, cam_axis, cam_side_axis, cam_up), shift)

\* the orbit displacement of a tick: move_dist along the unit side vector
\* (left +, right -) and along the unit up vector as rolled in this tick
\* (up +, down -)
OrbitShift(ks, sc) ==
    LET md   == MoveDist(Mag(sc.axis))
        side == SetMag(CamSideDir(sc), md)
        upw  == SetMag(Roll(ks, CamUp(sc), sc.axis), md)
        zero == <<0, 0, 0>>
        h    == IF "left" \in ks /\ "right" \notin ks THEN side
                ELSE IF "right" \in ks /\ "left" \notin ks THEN VNeg(side) ELSE zero
        v    == IF "up" \in ks /\ "down" \notin ks THEN upw
                ELSE IF "down" \in ks /\ "up" \notin ks THEN VNeg(upw) ELSE zero
    IN  VAdd(h, v)

\* C3 as stated: without 'ctrl', the position after the tick is the
\* position before it plus the offsets of the held pan keys (0.02 times
\* forward, side, up of the basis read at the start), in every order.
C3_PanSumOnly ==
    Ticked =>
        AllOrdersGive(keys \cap PanKeys, before.pos, before.axis, CamSideAxis(before),
                      CamUp(before), <<0, 0, 0>>, scene.pos)

\* C3 amended: without 'ctrl', the position after the tick is the position
\* before it plus the offsets of the held pan keys, in every order, plus the
\* displacement of the orbit keys that take effect; with no orbit key
\* taking effect, two opposite pan keys held together cancel.
C3_PanSumPlusOrbit ==
    Ticked =>
        /\ AllOrdersGive(keys \cap PanKeys, before.pos, before.axis, CamSideAxis(before),
                         CamUp(before), OrbitShift(keys, before), scene.pos)
        /\ (~OrbitTakesEffect(keys) /\ keys \cap PanKeys \in {{"w", "s"}, {"a", "d"}, {" ", "shift"}})
               => scene.pos = before.pos

\* a tick with three pan keys along three different basis vectors
C3_Witness ==
    /\ Ticked
    /\ keys = {"w", "d", " "}
    /\ scene.pos # before.pos

\* C4: a tick with a single orbit key held alone leaves the distance from
\* the camera position to the focus point as it was.
C4_OrbitKeepsDistance ==
    (Ticked /\ keys \in {{"left"}, {"right"}, {"up"}, {"down"}}) =>
        Near(FocusDistance(scene), FocusDistance(before))

\* position, axis and up of a scene
Pose(sc) == <<sc.pos, sc.axis, sc.up>>

\* C5: a tick with both keys of a pair (q/e, left/right, up/down) held has
\* the effect on position, axis and up of the tick with neither of them
\* held, the other held keys being the same; with q and e both held the
\* scene up vector stays as it was.
C5_PairCancels ==
    last = "keys" =>
        /\ \A pair \in {{"q", "e"}, {"left", "right"}, {"up", "down"}} :
               pair \subseteq keys =>
                   Pose(scene) = Pose(handle_keyboard_inputs(before, keys \ pair))
        /\ {"q", "e"} \subseteq keys => scene.up = before.up

\* a tick with q, e and an orbit key that moves the camera
C5_Witness ==
    /\ Ticked
    /\ {"q", "e"} \subseteq keys
    /\ keys \cap OrbitKeys # {}
    /\ scene.pos # before.pos

\* v turned by dir degrees (1 or -1) about the unit vector u it is
\* perpendicular to: v cos(1 deg) + (u x v) sin(1 deg)
TurnedOneDegree(v, dir, u) ==
    LET uv == UCross(u, v)
        t(i) == MulDiv(v[i], cos_rot_amount, TrigScale)
                + dir * MulDiv(uv[i], sin_rot_amount, TrigScale)
    IN  <<t(1), t(2), t(3)>>

\* exactly one roll key is held: -1 for q, 1 for e, 0 otherwise
RollDir(ks) ==
    IF "q" \in ks /\ "e" \notin ks THEN -1
    ELSE IF "e" \in ks /\ "q" \notin ks THEN 1 ELSE 0

\* C6 as stated: with exactly one roll key held, the up vector written is
\* the scene up vector of before the tick turned by 1 degree about the
\* forward axis and has the magnitude that vector had.
C6_RollTurnsPriorUp ==
    (Ticked /\ RollDir(keys) # 0) =>
        /\ VNear(scene.up, rotate(before.up, RollDir(keys), before.axis))
        /\ Near(Mag(scene.up), Mag(before.up))

\* C6 amended: with exactly one roll key held, the up vector written is
\* the camera-relative up vector cam_up (forward x (scene up x forward),
\* set to forward's magnitude) turned by 1 degree about the forward axis,
\* negative for q and positive for e; it has the magnitude of the camera
\* axis, which is cam_up's before the turn.
C6_RollTurnsCamUp ==
    (Ticked /\ RollDir(keys) # 0) =>
        /\ VNear(scene.up, TurnedOneDegree(CamUp(before), RollDir(keys), Unit(before.axis)))
        /\ Near(Mag(scene.up), Mag(before.axis))
        /\ Near(Mag(scene.up), Mag(CamUp(before)))

\* a roll from the initial pose, whose up vector is the unit z axis
C6_Witness ==
    /\ Ticked
    /\ keys = {"q"}
    /\ before.up = z_axis_vector
    /\ scene.up # before.up

\* C7: after a tick in which an orbit key takes effect, whatever pan keys
\* or second orbit key are held too, the camera axis is the vector from the
\* final camera position to the focus point, which is the focus point read
\* at the start of the tick.
C7_OrbitFacesFocus ==
    (Ticked /\ OrbitTakesEffect(keys)) =>
        /\ scene.axis = VSub(before.center, scene.pos)
        /\ scene.axis = VSub(scene.center, scene.pos)

\* a tick with two orbit keys and a pan key
C7_Witness ==
    /\ Ticked
    /\ keys = {"left", "up", "w"}
    /\ scene.pos # before.pos

\* C8: a tick with only pan keys held leaves the camera axis and the scene
\* up vector as they were, and a tick with only w followed by a tick with
\* only s brings the camera position back.
C8_PanKeepsDirection ==
    (Ticked /\ keys # {} /\ keys \subseteq PanKeys) =>
        /\ scene.axis = before.axis
        /\ scene.up = before.up
        /\ keys = {"w"} => handle_keyboard_inputs(scene, {"s"}).pos = before.pos

\* a tick with only w that moved the camera
C8_Witness ==
    /\ Ticked
    /\ keys = {"w"}
    /\ scene.pos # before.pos
    /\ handle_keyboard_inputs(scene, {"s"}).pos # scene.pos

\* C9: a tick with only roll keys held leaves the camera position and the
\* camera axis as they were.
C9_RollKeepsPosition ==
    (Ticked /\ keys # {} /\ keys \subseteq RollKeys) =>
        /\ scene.pos = before.pos
        /\ scene.axis = before.axis

\* a tick with only e that turned the up vector
C9_Witness ==
    /\ Ticked
    /\ keys = {"e"}
    /\ scene.up # before.up

\* the basis vector and sign of a single orbit key
OrbitAlong(k, sc) ==
    CASE k = "left"  -> CamSideDir(sc)
      [] k = "right" -> VNeg(CamSideDir(sc))
      [] k = "up"    -> CamUp(sc)
      [] k = "down"  -> VNeg(CamUp(sc))

\* the chord of 1 degree on the circle of radius d: 2 d sin(0.5 deg)
Chord(d) == MulDiv(d, 1745307, TrigScale)

\* C10: in every reachable state the magnitude of the camera axis, which
\* the tick uses for d, is the distance from the camera position to the
\* focus point, and a tick with a single orbit key moves the camera
\* position along the unit side or up vector by the chord length
\* sqrt(2 d^2 - 2 d^2 cos(1 deg)) for that distance d.
C10_OrbitStepIsChord ==
    /\ Mag(scene.axis) = FocusDistance(scene)
    /\ \A k \in OrbitKeys :
           (Ticked /\ keys = {k}) =>
               LET along == OrbitAlong(k, before)
                   chord == Chord(FocusDistance(before))
               IN  /\ VNear(VSub(scene.pos, before.pos), VTimes(norm(along), chord))
                   /\ Near(Mag(VSub(scene.pos, before.pos)), chord)

\* a single-key orbit step from a pose that pan, roll and orbit changed
C10_Witness ==
    /\ Ticked
    /\ keys = {"up"}
    /\ before # InitialScene
    /\ before.up # z_axis_vector
    /\ scene.pos # before.pos

====
